---- MODULE Spec2Model ----
(***************************************************************************)
(* A model of log_monitor_bot.py: LogMonitorBot tails a log file, matches  *)
(* the new lines against the configured filters, batches the matches and   *)
(* sends each batch as one Telegram message.                               *)
(*                                                                         *)
(* Text is a sequence of one-character strings.  A character outside ASCII *)
(* in the source (the bell emoji, the Cyrillic letters) is written as one  *)
(* ASCII character, so that every length is the length Python computes.    *)
(***************************************************************************)
EXTENDS Integers, Sequences, FiniteSets, TLC

VARIABLES
    pc,               \* where run() stands
    config,           \* self.config['filters']
    filters,          \* self.filters
    batch_size,       \* self.batch_size
    batch_timeout,    \* self.batch_timeout
    last_position,    \* self.last_position
    pending_logs,     \* self.pending_logs
    last_send_time,   \* self.last_send_time
    total_logs_sent,  \* self.total_logs_sent
    message,          \* the text send_pending_logs has handed to send_telegram_message
    now,              \* time.time(), in seconds
    file_exists,      \* os.path.exists(self.log_file)
    file,             \* the bytes of the log file
    shrunk,           \* history: the log file was truncated at some point
    read_count,       \* history: how often each byte of the file was returned by a read
    origins,          \* history: the file offset of the line behind each entry ever appended
    sent,             \* history: the entries of the batches the Notifier accepted
    last_flush,       \* history: the last call of send_pending_logs that returned
    tick_flushes,     \* history: how each send_pending_logs of the current tick ended
    split,            \* history: a read ended in the middle of a line
    batch_called,     \* history: some batch was handed to the Notifier
    failed,           \* history: some batch delivery returned failure
    probe,            \* history: the outcome of test_connection
    startup,          \* history: the outcome of the startup message
    summary,          \* history: the shutdown summaries handed to the Notifier
    arg,              \* the input of the function under test (SpecMatch, SpecFormat)
    ret               \* its result

prog  == <<pc, config, filters, batch_size, batch_timeout, last_position,
           pending_logs, last_send_time, total_logs_sent, message>>
env   == <<now, file_exists, file, shrunk>>
hist  == <<read_count, origins, sent, last_flush, tick_flushes, split,
           batch_called, failed, probe, startup, summary>>
unit  == <<arg, ret>>
vars  == <<prog, env, hist, unit>>

----------------------------------------------------------------------------
(* Bounds of the model *)

MaxFile == 4          \* bytes the writer appends to the log file in a run
MaxTime == 3          \* seconds the clock runs
MaxBatchSize == 2     \* monitoring.batch_size is drawn from 0..MaxBatchSize
BatchTimeout == 2     \* monitoring.batch_timeout of the modelled configuration
MaxRules == 2         \* rules in a filter configuration (SpecMatch)
MaxLine == 2          \* characters of a line handed to check_log_match (SpecMatch)
MaxPad == 3           \* how far around the cap the message lengths go (SpecFormat)

(* Program constants *)

CheckInterval == 1    \* monitoring.check_interval, its default
MessageCap == 4000    \* format_log_batch: len(message) > 4000
RuleWidth == 40       \* format_log_batch: "=" * 40

----------------------------------------------------------------------------
(* Text *)

NL == "\n"
Whitespace == {" ", NL, "\t", "\r"}

Range(s) == {s[i] : i \in 1..Len(s)}

IsPrefix(s, t) == Len(s) <= Len(t) /\ SubSeq(t, 1, Len(s)) = s

Repeat(c, n) == [i \in 1..n |-> c]

RECURSIVE Join(_, _)
\* sep.join(parts)
Join(parts, sep) ==
    IF parts = <<>> THEN <<>>
    ELSE IF Len(parts) = 1 THEN parts[1]
    ELSE parts[1] \o sep \o Join(Tail(parts), sep)

RECURSIVE Decimal(_)
\* str(n) of a natural number
Decimal(n) ==
    LET d == <<"0", "1", "2", "3", "4", "5", "6", "7", "8", "9">>
    IN  IF n < 10 THEN <<d[n + 1]>> ELSE Decimal(n \div 10) \o <<d[(n % 10) + 1]>>

\* datetime.now().strftime('%Y-%m-%d %H:%M:%S'): 19 characters, the clock's
\* seconds in the last two
Timestamp(t) ==
    <<"2", "0", "2", "4", "-", "0", "1", "-", "0", "1", " ", "0", "0", ":", "0", "0", ":">>
    \o (IF t % 60 < 10 THEN <<"0">> ELSE <<>>) \o Decimal(t % 60)

\* str.strip(): whitespace removed from both ends
Strip(s) ==
    LET keep == {i \in 1..Len(s) : s[i] \notin Whitespace}
    IN  IF keep = {} THEN <<>>
        ELSE SubSeq(s, CHOOSE i \in keep : \A j \in keep : i <= j,
                       CHOOSE i \in keep : \A j \in keep : i >= j)

RECURSIVE ReadLines(_, _)
\* f.readlines() from offset `at`: the text up to the end of the file cut after
\* each line terminator, a last piece without terminator included.  Each piece
\* is paired with the offset it starts at.
ReadLines(text, at) ==
    IF text = <<>> THEN <<>>
    ELSE LET ends == {i \in 1..Len(text) : text[i] = NL}
             k == IF ends = {} THEN Len(text)
                  ELSE CHOOSE i \in ends : \A j \in ends : i <= j
         IN  <<[line |-> SubSeq(text, 1, k), at |-> at]>>
             \o ReadLines(SubSeq(text, k + 1, Len(text)), at + k)

----------------------------------------------------------------------------
(* Filters *)

\* re.compile(pattern) raises re.error: of the patterns of the model, the ones
\* that open a group and never close it
CompileFails(pattern) ==
    Cardinality({i \in 1..Len(pattern) : pattern[i] = "("})
        # Cardinality({i \in 1..Len(pattern) : pattern[i] = ")"})

\* pattern.search(line) for a pattern of literal characters: found anywhere
Search(pattern, line) ==
    \E i \in 0..(Len(line) - Len(pattern)) :
        SubSeq(line, i + 1, i + Len(pattern)) = pattern

RECURSIVE compile_filters(_)
compile_filters(cfg) ==
    IF cfg = <<>> THEN <<>>
    ELSE LET f == cfg[1]
         IN  (IF f.enabled /\ ~CompileFails(f.pattern)
              THEN <<[name |-> f.name, pattern |-> f.pattern]>>
              ELSE <<>>) \o compile_filters(Tail(cfg))

\* mutant: the last filter that finds its pattern wins
check_log_match_last(fs, log_line) ==
    LET hits == {i \in 1..Len(fs) : Search(fs[i].pattern, log_line)}
    IN  IF hits = {} THEN [matched |-> FALSE, name |-> <<>>]
        ELSE [matched |-> TRUE,
              name |-> fs[CHOOSE i \in hits : \A j \in hits : i >= j].name]

\* (matched, filter_name); None is <<>>
check_log_match(fs, log_line) ==
    LET hits == {i \in 1..Len(fs) : Search(fs[i].pattern, log_line)}
    IN  IF hits = {} THEN [matched |-> FALSE, name |-> <<>>]
        ELSE [matched |-> TRUE,
              name |-> fs[CHOOSE i \in hits : \A j \in hits : i <= j].name]

----------------------------------------------------------------------------
(* Messages *)

Header(n, t) ==
    <<"*", " ", "U", "v", "e", "d", "o", "m", "l", "e", "n", "i", "e", " ", "o", " ",
      "l", "o", "g", "a", "h", NL>>
    \o <<"V", "r", "e", "m", "y", ":", " ">> \o Timestamp(t) \o <<NL>>
    \o <<"Z", "a", "p", "i", "s", "e", "y", ":", " ">> \o Decimal(n) \o <<NL>>
    \o Repeat("=", RuleWidth) \o <<NL, NL>>

TruncationMarker ==
    <<NL, NL, ".", ".", ".", " ", "(", "o", "b", "r", "e", "z", "a", "n", "o", ")">>

\* header + body, before the cap is applied
NaturalMessage(logs, t) == Header(Len(logs), t) \o Join(logs, <<NL, NL>>)

\* mutant: a message of exactly the cap is cut too
TruncateAtCap(text) ==
    IF Len(text) >= MessageCap
    THEN SubSeq(text, 1, MessageCap) \o TruncationMarker
    ELSE text

Truncate(text) ==
    IF Len(text) > MessageCap
    THEN SubSeq(text, 1, MessageCap) \o TruncationMarker
    ELSE text

format_log_batch(logs, t) == Truncate(NaturalMessage(logs, t))

\* f"[{filter_name}]\n{line}"
FormatEntry(name, line) == <<"[">> \o name \o <<"]", NL>> \o line

----------------------------------------------------------------------------
(* The configuration of the modelled run: a disabled rule, a rule whose     *)
(* pattern does not compile, and the rule "A" that finds an "E".            *)

MainConfig ==
    << [name |-> <<"D">>, pattern |-> <<"x">>, enabled |-> FALSE],
       [name |-> <<"B">>, pattern |-> <<"(">>, enabled |-> TRUE],
       [name |-> <<"A">>, pattern |-> <<"E">>, enabled |-> TRUE] >>

\* what the external writer appends, one byte at a time
Alphabet == {"E", "x", NL}

Running  == {"poll", "size_deliver", "time_check", "time_deliver", "sleep"}
Stopping == {"stop_flush", "stop_deliver", "stop_summary"}
Delivering == {"size_deliver", "time_deliver", "stop_deliver"}

\* the states of the lifecycle
Lifecycle ==
    CASE pc = "probe" -> "STARTING"
      [] pc = "startup" -> "CONNECTED"
      [] pc \in Running -> "RUNNING"
      [] pc \in Stopping -> "STOPPING"
      [] OTHER -> "STOPPED"

NoFlush == [batch |-> <<>>, result |-> "none"]

Init ==
    /\ pc = "probe"
    /\ config = MainConfig
    /\ filters = compile_filters(config)
    /\ batch_size \in 0..MaxBatchSize
    /\ batch_timeout = BatchTimeout
    /\ last_position = 0
    /\ pending_logs = <<>>
    /\ now = 0
    /\ last_send_time = now
    /\ total_logs_sent = 0
    /\ message = <<>>
    /\ file_exists \in BOOLEAN
    /\ file = <<>>
    /\ shrunk = FALSE
    /\ read_count = [i \in 1..MaxFile |-> 0]
    /\ origins = <<>>
    /\ sent = <<>>
    /\ last_flush = NoFlush
    /\ tick_flushes = <<>>
    /\ split = FALSE
    /\ batch_called = FALSE
    /\ failed = FALSE
    /\ probe = "none"
    /\ startup = "none"
    /\ summary = <<>>
    /\ arg = <<>>
    /\ ret = <<>>

----------------------------------------------------------------------------
(* The log file and its writer.  The program looks at the file only in      *)
(* process_new_lines, so the writer's steps are taken where the tick        *)
(* begins: a write during another statement of the tick is seen by the next *)
(* read exactly as a write just before it.                                  *)

CreateFile ==
    /\ pc = "poll"
    /\ ~file_exists
    /\ file_exists' = TRUE
    /\ UNCHANGED <<prog, now, file, shrunk, hist, unit>>

WriterAppend ==
    /\ pc = "poll"
    /\ file_exists
    /\ Len(file) < MaxFile
    /\ \E c \in Alphabet : file' = Append(file, c)
    /\ UNCHANGED <<prog, now, file_exists, shrunk, hist, unit>>

\* truncation or rotation: the file starts again empty (once in a run)
WriterTruncate ==
    /\ pc = "poll"
    /\ file_exists
    /\ file # <<>>
    /\ ~shrunk
    /\ file' = <<>>
    /\ shrunk' = TRUE
    /\ read_count' = [i \in 1..MaxFile |-> 0]
    /\ UNCHANGED <<prog, now, file_exists, origins, sent, last_flush, tick_flushes,
                   split, batch_called, failed, probe, startup, summary, unit>>

----------------------------------------------------------------------------
(* run(): the start *)

\* test_connection()
Probe ==
    /\ pc = "probe"
    /\ \E ok \in BOOLEAN :
        /\ probe' = (IF ok THEN "ok" ELSE "fail")
        /\ pc' = (IF ok THEN "startup" ELSE "stopped")
    /\ UNCHANGED <<config, filters, batch_size, batch_timeout, last_position,
                   pending_logs, last_send_time, total_logs_sent, message, env,
                   read_count, origins, sent, last_flush, tick_flushes, split,
                   batch_called, failed, startup, summary, unit>>

\* mutant: the loop is entered whether the startup message went out or not
StartupIgnoresFailure ==
    /\ pc = "startup"
    /\ \E ok \in BOOLEAN :
        /\ startup' = (IF ok THEN "ok" ELSE "fail")
        /\ pc' = "poll"
    /\ UNCHANGED <<config, filters, batch_size, batch_timeout, last_position,
                   pending_logs, last_send_time, total_logs_sent, message, env,
                   read_count, origins, sent, last_flush, tick_flushes, split,
                   batch_called, failed, probe, summary, unit>>

\* send_telegram_message(test_msg)
Startup ==
    /\ pc = "startup"
    /\ \E ok \in BOOLEAN :
        /\ startup' = (IF ok THEN "ok" ELSE "fail")
        /\ pc' = (IF ok THEN "poll" ELSE "stopped")
    /\ UNCHANGED <<config, filters, batch_size, batch_timeout, last_position,
                   pending_logs, last_send_time, total_logs_sent, message, env,
                   read_count, origins, sent, last_flush, tick_flushes, split,
                   batch_called, failed, probe, summary, unit>>

----------------------------------------------------------------------------
(* process_new_lines() *)

\* the text f.readlines() returns after f.seek(self.last_position)
NewText ==
    IF last_position < Len(file) THEN SubSeq(file, last_position + 1, Len(file))
    ELSE <<>>

\* mutant: the offset is not advanced
CurrentPositionStale == last_position

\* mutant: a read that finds nothing new rewinds to the start
CurrentPositionRewinds == IF NewText = <<>> THEN 0 ELSE Len(file)

\* f.tell() after the read: the end of the file, or the offset sought when that
\* lies beyond the end
CurrentPosition == IF last_position <= Len(file) THEN Len(file) ELSE last_position

RECURSIVE NewEntriesUnfiltered(_)
\* mutant: a line is appended whether a filter matched it or not
NewEntriesUnfiltered(pieces) ==
    IF pieces = <<>> THEN <<>>
    ELSE LET line == Strip(pieces[1].line)
             m == check_log_match(filters, line)
         IN  (IF line # <<>>
              THEN <<[entry |-> FormatEntry(m.name, line), at |-> pieces[1].at]>>
              ELSE <<>>) \o NewEntriesUnfiltered(Tail(pieces))

RECURSIVE NewEntries(_)
\* the loop over new_lines: the entries appended to pending_logs, each with the
\* offset of its line
NewEntries(pieces) ==
    IF pieces = <<>> THEN <<>>
    ELSE LET line == Strip(pieces[1].line)
             m == check_log_match(filters, line)
         IN  (IF line # <<>> /\ m.matched
              THEN <<[entry |-> FormatEntry(m.name, line), at |-> pieces[1].at]>>
              ELSE <<>>) \o NewEntries(Tail(pieces))

Entries(es) == [i \in 1..Len(es) |-> es[i].entry]
Offsets(es) == [i \in 1..Len(es) |-> es[i].at]

\* the read ends in a line that has no terminator yet
MidLine == NewText # <<>> /\ NewText[Len(NewText)] # NL

\* len(self.pending_logs) >= self.batch_size
SizeDue(pending) == Len(pending) >= batch_size

\* mutant: an empty batch is formatted and sent like any other
EnterFlushAlways(pending, deliver, after) ==
    /\ pc' = deliver
    /\ message' = format_log_batch(pending, now)
    /\ UNCHANGED <<last_flush, tick_flushes>>

\* send_pending_logs() up to the call of send_telegram_message: an empty batch
\* returns True at once, another is formatted and handed over
EnterFlush(pending, deliver, after) ==
    IF pending = <<>>
    THEN /\ pc' = after
         /\ message' = message
         /\ last_flush' = [batch |-> <<>>, result |-> "empty"]
         /\ tick_flushes' = Append(tick_flushes, "empty")
    ELSE /\ pc' = deliver
         /\ message' = format_log_batch(pending, now)
         /\ UNCHANGED <<last_flush, tick_flushes>>

\* the condition of the flush is false: send_pending_logs is not called
SkipFlush(after) ==
    /\ pc' = after
    /\ UNCHANGED <<message, last_flush, tick_flushes>>

\* mutant: the batch is cleared whether the delivery succeeded or not
AfterDeliverClearsAlways(ok) ==
    /\ total_logs_sent' = (IF ok THEN total_logs_sent + Len(pending_logs)
                           ELSE total_logs_sent)
    /\ pending_logs' = <<>>
    /\ last_send_time' = (IF ok THEN now ELSE last_send_time)

\* mutant: the counter counts accepted messages, not entries
AfterDeliverCountsMessages(ok) ==
    IF ok
    THEN /\ total_logs_sent' = total_logs_sent + 1
         /\ pending_logs' = <<>>
         /\ last_send_time' = now
    ELSE UNCHANGED <<total_logs_sent, pending_logs, last_send_time>>

\* send_pending_logs() after send_telegram_message returned ok
AfterDeliver(ok) ==
    IF ok
    THEN /\ total_logs_sent' = total_logs_sent + Len(pending_logs)
         /\ pending_logs' = <<>>
         /\ last_send_time' = now
    ELSE UNCHANGED <<total_logs_sent, pending_logs, last_send_time>>

\* the call of send_telegram_message(message) for a batch, and what
\* send_pending_logs does with its answer
Deliver(after) ==
    \E ok \in BOOLEAN :
        /\ AfterDeliver(ok)
        /\ sent' = (IF ok THEN sent \o pending_logs ELSE sent)
        /\ last_flush' = [batch |-> pending_logs,
                          result |-> IF ok THEN "ok" ELSE "fail"]
        /\ failed' = (failed \/ ~ok)
        /\ tick_flushes' = Append(tick_flushes, IF ok THEN "ok" ELSE "fail")
        /\ batch_called' = TRUE
        /\ message' = <<>>
        /\ pc' = after

\* os.path.exists() is false: return
PollMissing ==
    /\ pc = "poll"
    /\ ~file_exists
    /\ pc' = "time_check"
    /\ UNCHANGED <<config, filters, batch_size, batch_timeout, last_position,
                   pending_logs, last_send_time, total_logs_sent, message, env,
                   hist, unit>>

\* mutant: the offset is stored although the read failed
PollErrorStoresOffset ==
    /\ pc = "poll"
    /\ file_exists
    /\ pc' = "time_check"
    /\ last_position' = Len(file)
    /\ UNCHANGED <<config, filters, batch_size, batch_timeout, pending_logs,
                   last_send_time, total_logs_sent, message, env, hist, unit>>

\* mutant: the except branch starts over with an empty batch
PollErrorDropsBatch ==
    /\ pc = "poll"
    /\ file_exists
    /\ pc' = "time_check"
    /\ pending_logs' = <<>>
    /\ UNCHANGED <<config, filters, batch_size, batch_timeout, last_position,
                   last_send_time, total_logs_sent, message, env, hist, unit>>

\* mutant: no except branch, the error leaves run()
PollErrorRaises ==
    /\ pc = "poll"
    /\ file_exists
    /\ pc' = "stopped"
    /\ UNCHANGED <<config, filters, batch_size, batch_timeout, last_position,
                   pending_logs, last_send_time, total_logs_sent, message, env,
                   hist, unit>>

\* open, seek, readlines or tell raises: the except branch
PollError ==
    /\ pc = "poll"
    /\ file_exists
    /\ pc' = "time_check"
    /\ UNCHANGED <<config, filters, batch_size, batch_timeout, last_position,
                   pending_logs, last_send_time, total_logs_sent, message, env,
                   hist, unit>>

\* the read, the loop over the new lines, the new offset and the size check
Poll ==
    /\ pc = "poll"
    /\ file_exists
    /\ LET es == NewEntries(ReadLines(NewText, last_position))
           pending == pending_logs \o Entries(es)
       IN  /\ pending_logs' = pending
           /\ origins' = origins \o Offsets(es)
           /\ last_position' = CurrentPosition
           /\ read_count' = [i \in 1..MaxFile |->
                               IF last_position < i /\ i <= Len(file)
                               THEN read_count[i] + 1 ELSE read_count[i]]
           /\ IF SizeDue(pending)
              THEN EnterFlush(pending, "size_deliver", "time_check")
              ELSE SkipFlush("time_check")
    /\ split' = (split \/ MidLine)
    /\ UNCHANGED <<config, filters, batch_size, batch_timeout, last_send_time,
                   total_logs_sent, env, sent, batch_called, failed, probe, startup,
                   summary, unit>>

SizeDeliver ==
    /\ pc = "size_deliver"
    /\ Deliver("time_check")
    /\ UNCHANGED <<config, filters, batch_size, batch_timeout, last_position, env,
                   read_count, origins, split, probe, startup, summary, unit>>

----------------------------------------------------------------------------
(* run(): the loop *)

\* mutant: the timeout must be exceeded, not reached
TimeDueStrict == pending_logs # <<>> /\ now - last_send_time > batch_timeout

\* self.pending_logs and time_since_last_send >= self.batch_timeout
TimeDue == pending_logs # <<>> /\ now - last_send_time >= batch_timeout

TimeCheck ==
    /\ pc = "time_check"
    /\ IF TimeDue
       THEN EnterFlush(pending_logs, "time_deliver", "sleep")
       ELSE SkipFlush("sleep")
    /\ UNCHANGED <<config, filters, batch_size, batch_timeout, last_position,
                   pending_logs, last_send_time, total_logs_sent, env, read_count,
                   origins, sent, split, batch_called, failed, probe, startup,
                   summary, unit>>

TimeDeliver ==
    /\ pc = "time_deliver"
    /\ Deliver("sleep")
    /\ UNCHANGED <<config, filters, batch_size, batch_timeout, last_position, env,
                   read_count, origins, split, probe, startup, summary, unit>>

\* time.sleep(self.check_interval), and the next tick begins.  The clock is read
\* in whole seconds and moves here only: the statements of one tick see one
\* reading of it.
Sleep ==
    /\ pc = "sleep"
    /\ now < MaxTime
    /\ now' = now + CheckInterval
    /\ pc' = "poll"
    /\ tick_flushes' = <<>>
    /\ UNCHANGED <<config, filters, batch_size, batch_timeout, last_position,
                   pending_logs, last_send_time, total_logs_sent, message,
                   file_exists, file, shrunk, read_count, origins, sent, last_flush,
                   split, batch_called, failed, probe, startup, summary, unit>>

----------------------------------------------------------------------------
(* KeyboardInterrupt.  It is raised between two statements of the loop, or  *)
(* inside one: `except Exception` does not catch it, so it leaves           *)
(* process_new_lines and send_pending_logs where they stand.                *)

\* between two statements of the loop, or in time.sleep() (an interrupt at the
\* top of the loop is the one in time.sleep() before it)
Interrupt ==
    /\ pc \in {"time_check", "sleep"}
    /\ pc' = "stop_flush"
    /\ UNCHANGED <<config, filters, batch_size, batch_timeout, last_position,
                   pending_logs, last_send_time, total_logs_sent, message, env,
                   hist, unit>>

\* in the loop over new_lines: some of the new entries are appended, the offset
\* is not stored
InterruptPoll ==
    /\ pc = "poll"
    /\ file_exists
    /\ LET es == NewEntries(ReadLines(NewText, last_position))
       IN  \E k \in 1..Len(es) :
            /\ pending_logs' = pending_logs \o Entries(SubSeq(es, 1, k))
            /\ origins' = origins \o Offsets(SubSeq(es, 1, k))
    /\ read_count' = [i \in 1..MaxFile |->
                        IF last_position < i /\ i <= Len(file)
                        THEN read_count[i] + 1 ELSE read_count[i]]
    /\ split' = (split \/ MidLine)
    /\ pc' = "stop_flush"
    /\ UNCHANGED <<config, filters, batch_size, batch_timeout, last_position,
                   last_send_time, total_logs_sent, message, env, sent, last_flush,
                   tick_flushes, batch_called, failed, probe, startup, summary,
                   unit>>

\* in send_pending_logs, during send_telegram_message (the Notifier has the
\* message or not, done = 0) or after it returned True: before
\* total_logs_sent += count (done = 0), before pending_logs = [] (done = 1),
\* before last_send_time = time.time() (done = 2)
InterruptDeliver ==
    /\ pc \in {"size_deliver", "time_deliver"}
    /\ \E accepted \in BOOLEAN, done \in 0..2 :
        /\ done > 0 => accepted
        /\ sent' = (IF accepted THEN sent \o pending_logs ELSE sent)
        /\ total_logs_sent' =
             (IF done >= 1 THEN total_logs_sent + Len(pending_logs)
              ELSE total_logs_sent)
        /\ pending_logs' = (IF done >= 2 THEN <<>> ELSE pending_logs)
        /\ last_flush' = [batch |-> pending_logs, result |-> "cut"]
    /\ tick_flushes' = Append(tick_flushes, "cut")
    /\ batch_called' = TRUE
    /\ message' = <<>>
    /\ pc' = "stop_flush"
    /\ UNCHANGED <<config, filters, batch_size, batch_timeout, last_position,
                   last_send_time, env, read_count, origins, split, failed, probe,
                   startup, summary, unit>>

----------------------------------------------------------------------------
(* run(): the except KeyboardInterrupt branch *)

\* if self.pending_logs: self.send_pending_logs()
StopFlush ==
    /\ pc = "stop_flush"
    /\ IF pending_logs # <<>>
       THEN EnterFlush(pending_logs, "stop_deliver", "stop_summary")
       ELSE SkipFlush("stop_summary")
    /\ UNCHANGED <<config, filters, batch_size, batch_timeout, last_position,
                   pending_logs, last_send_time, total_logs_sent, env, read_count,
                   origins, sent, split, batch_called, failed, probe, startup,
                   summary, unit>>

\* mutant: a final flush that fails is tried again
StopDeliverRetries ==
    /\ pc = "stop_deliver"
    /\ \E ok \in BOOLEAN :
        /\ AfterDeliver(ok)
        /\ sent' = (IF ok THEN sent \o pending_logs ELSE sent)
        /\ last_flush' = [batch |-> pending_logs,
                          result |-> IF ok THEN "ok" ELSE "fail"]
        /\ failed' = (failed \/ ~ok)
        /\ tick_flushes' = Append(tick_flushes, IF ok THEN "ok" ELSE "fail")
        /\ batch_called' = TRUE
        /\ message' = <<>>
        /\ pc' = (IF ok THEN "stop_summary" ELSE "stop_flush")
    /\ UNCHANGED <<config, filters, batch_size, batch_timeout, last_position, env,
                   read_count, origins, split, probe, startup, summary, unit>>

StopDeliver ==
    /\ pc = "stop_deliver"
    /\ Deliver("stop_summary")
    /\ UNCHANGED <<config, filters, batch_size, batch_timeout, last_position, env,
                   read_count, origins, split, probe, startup, summary, unit>>

\* send_telegram_message(stop_msg): the summary reports total_logs_sent
StopSummary ==
    /\ pc = "stop_summary"
    /\ \E ok \in BOOLEAN :
        summary' = Append(summary, [total |-> total_logs_sent, ok |-> ok])
    /\ pc' = "stopped"
    /\ UNCHANGED <<config, filters, batch_size, batch_timeout, last_position,
                   pending_logs, last_send_time, total_logs_sent, message, env,
                   read_count, origins, sent, last_flush, tick_flushes, split,
                   batch_called, failed, probe, startup, unit>>

Next ==
    \/ CreateFile \/ WriterAppend
    \/ Probe \/ Startup
    \/ PollMissing \/ PollError \/ Poll \/ SizeDeliver
    \/ TimeCheck \/ TimeDeliver \/ Sleep
    \/ Interrupt \/ InterruptPoll \/ InterruptDeliver
    \/ StopFlush \/ StopDeliver \/ StopSummary

Spec == Init /\ [][Next]_vars

\* the except branch runs to its end: its statements follow one another and
\* send_telegram_message returns within its timeout
SpecStop ==
    Spec /\ WF_vars(StopFlush) /\ WF_vars(StopDeliver) /\ WF_vars(StopSummary)

\* time.sleep() once the clock has reached MaxTime: the origin of the clock
\* moves forward by check_interval instead, so that the loop can tick forever
\* in a finite model.  now - last_send_time is kept, up to batch_timeout, which
\* is all the comparison of line 189 distinguishes.
SleepRebased ==
    /\ pc = "sleep"
    /\ now = MaxTime
    /\ now' = now
    /\ last_send_time' =
         (IF last_send_time - CheckInterval < now - batch_timeout
          THEN last_send_time ELSE last_send_time - CheckInterval)
    /\ pc' = "poll"
    /\ tick_flushes' = <<>>
    /\ UNCHANGED <<config, filters, batch_size, batch_timeout, last_position,
                   pending_logs, total_logs_sent, message, file_exists, file,
                   shrunk, read_count, origins, sent, last_flush, split,
                   batch_called, failed, probe, startup, summary, unit>>

NextLive == Next \/ SleepRebased

\* run() executes its statements one after the other (every delivery returns
\* within its timeout), so each statement of the loop that is reached is
\* executed unless the interrupt comes first
SpecLive ==
    /\ Init
    /\ [][NextLive]_vars
    /\ WF_vars(PollMissing \/ PollError \/ Poll)
    /\ WF_vars(SizeDeliver)
    /\ WF_vars(TimeCheck)
    /\ WF_vars(TimeDeliver)
    /\ WF_vars(Sleep \/ SleepRebased)

\* the same run, at the largest batch size, with a log file that is truncated
\* or rotated once
InitRotate == Init /\ batch_size = MaxBatchSize

NextRotate == Next \/ WriterTruncate

SpecRotate == InitRotate /\ [][NextRotate]_vars

----------------------------------------------------------------------------
(* check_log_match on its own: every filter configuration of up to MaxRules *)
(* rules, every line of up to MaxLine characters.                           *)

RuleNames == {<<"A">>, <<"B">>}
RulePatterns == {<<>>, <<"E">>, <<"x">>, <<"E", "x">>, <<"(">>}
RuleConfigs == [name : RuleNames, pattern : RulePatterns, enabled : BOOLEAN]

SeqsUpTo(S, n) == UNION {[1..k -> S] : k \in 0..n}

InitBase ==
    /\ batch_size = MaxBatchSize
    /\ batch_timeout = BatchTimeout
    /\ last_position = 0
    /\ pending_logs = <<>>
    /\ last_send_time = now
    /\ total_logs_sent = 0
    /\ message = <<>>
    /\ file_exists = FALSE
    /\ file = <<>>
    /\ shrunk = FALSE
    /\ read_count = [i \in 1..MaxFile |-> 0]
    /\ origins = <<>>
    /\ sent = <<>>
    /\ last_flush = NoFlush
    /\ tick_flushes = <<>>
    /\ split = FALSE
    /\ batch_called = FALSE
    /\ failed = FALSE
    /\ probe = "none"
    /\ startup = "none"
    /\ summary = <<>>

\* __init__ with a configuration drawn from the bounded set
InitMatch ==
    /\ pc = "match"
    /\ config \in SeqsUpTo(RuleConfigs, MaxRules)
    /\ filters = compile_filters(config)
    /\ now = 0
    /\ arg = <<>>
    /\ ret = <<>>
    /\ InitBase

\* one call check_log_match(log_line)
Match ==
    /\ pc \in {"match", "matched"}
    /\ \E log_line \in SeqsUpTo({"E", "x"}, MaxLine) :
        /\ arg' = log_line
        /\ ret' = check_log_match(filters, log_line)
    /\ pc' = "matched"
    /\ UNCHANGED <<config, filters, batch_size, batch_timeout, last_position,
                   pending_logs, last_send_time, total_logs_sent, message, env, hist>>

NextMatch == Match

SpecMatch == InitMatch /\ [][NextMatch]_vars

----------------------------------------------------------------------------
(* format_log_batch on its own: batches whose natural length lies within    *)
(* MaxPad characters of the cap, well above it, and far below it.           *)

\* an entry of the rule "A" whose line is n times the character c
LongEntry(c, n) == FormatEntry(<<"A">>, Repeat(c, n))

\* short entries, then one entry that brings the natural length to `length`
BatchOfLength(short, c, length) ==
    LET head == [i \in 1..short |-> LongEntry("E", 1)]
        used == Len(NaturalMessage(Append(head, LongEntry(c, 0)), 0))
    IN  Append(head, LongEntry(c, length - used))

FormatLengths ==
    {MessageCap + d : d \in (0 - MaxPad)..MaxPad} \cup {MessageCap + 100, 200}

FormatInputs ==
    {BatchOfLength(short, c, length) :
        short \in 0..2, c \in {"E", "x"}, length \in FormatLengths}

InitFormat ==
    /\ pc = "format"
    /\ config = MainConfig
    /\ filters = compile_filters(config)
    /\ now \in {0, 10}
    /\ arg \in FormatInputs
    /\ ret = <<>>
    /\ InitBase

\* one call format_log_batch(logs)
Format ==
    /\ pc = "format"
    /\ ret' = format_log_batch(arg, now)
    /\ pc' = "formatted"
    /\ UNCHANGED <<config, filters, batch_size, batch_timeout, last_position,
                   pending_logs, last_send_time, total_logs_sent, message, env, hist,
                   arg>>

NextFormat == Format

SpecFormat == InitFormat /\ [][NextFormat]_vars

----------------------------------------------------------------------------
(* send_pending_logs() on long batches: the loop stands at its time check,   *)
(* batch_timeout after the last send, with a pending batch drawn from the    *)
(* batches whose message lies around the cap (long lines, or entries kept    *)
(* over failed flushes).  The file behind the entries is not carried here.   *)

InitFlush ==
    /\ pc = "time_check"
    /\ config = MainConfig
    /\ filters = compile_filters(config)
    /\ batch_size = MaxBatchSize + 2
    /\ batch_timeout = BatchTimeout
    /\ last_position = 0
    /\ pending_logs \in FormatInputs
    /\ last_send_time = 0
    /\ now = BatchTimeout
    /\ total_logs_sent = 0
    /\ message = <<>>
    /\ file_exists = TRUE
    /\ file = <<>>
    /\ shrunk = FALSE
    /\ read_count = [i \in 1..MaxFile |-> 0]
    /\ origins = <<>>
    /\ sent = <<>>
    /\ last_flush = NoFlush
    /\ tick_flushes = <<>>
    /\ split = FALSE
    /\ batch_called = FALSE
    /\ failed = FALSE
    /\ probe = "ok"
    /\ startup = "ok"
    /\ summary = <<>>
    /\ arg = <<>>
    /\ ret = <<>>

NextFlush == TimeCheck \/ TimeDeliver

SpecFlush == InitFlush /\ [][NextFlush]_vars

----------------------------------------------------------------------------
(* What the claims are stated with *)

\* the pattern is found somewhere in the line
Occurs(pattern, line) ==
    \E a \in 0..Len(line), b \in 0..Len(line) :
        a <= b /\ SubSeq(line, a + 1, b) = pattern

\* the rules of the configuration that are enabled, compile and occur in the line
LiveRules(line) ==
    {i \in 1..Len(config) :
        /\ config[i].enabled
        /\ ~CompileFails(config[i].pattern)
        /\ Occurs(config[i].pattern, line)}

FirstOf(S) == CHOOSE i \in S : \A j \in S : i <= j

RECURSIVE LinesOf(_)
\* the lines of a text, without their terminators
LinesOf(text) ==
    IF text = <<>> THEN <<>>
    ELSE LET ends == {i \in 1..Len(text) : text[i] = NL}
             k == IF ends = {} THEN Len(text) + 1 ELSE FirstOf(ends)
         IN  <<SubSeq(text, 1, k - 1)>> \o LinesOf(SubSeq(text, k + 1, Len(text)))

RECURSIVE ExpectedEntries(_)
\* "[ruleName]\nline" for every non-empty line that some rule matches, in order
ExpectedEntries(lines) ==
    IF lines = <<>> THEN <<>>
    ELSE LET line == Strip(lines[1])
         IN  (IF line # <<>> /\ LiveRules(line) # {}
              THEN <<(<<"[">> \o config[FirstOf(LiveRules(line))].name
                      \o <<"]", NL>> \o line)>>
              ELSE <<>>) \o ExpectedEntries(Tail(lines))

\* the part of the log file the reads have consumed
Consumed == SubSeq(file, 1, last_position)

\* a step in which a batch delivery returns
Returned == pc \in Delivering /\ pc' \notin Delivering /\ pc' # "stop_flush"

\* a step in which send_pending_logs hands a batch to the Notifier
Submits == pc \notin Delivering /\ pc' \in Delivering

----------------------------------------------------------------------------
(* C1  Retry on failure: when the delivery of a non-empty pending batch      *)
(* returns failure, pending_logs, last_send_time and total_logs_sent are     *)
(* unchanged, and the next batch handed to the Notifier begins with the      *)
(* entries of the failed batch, in the same order.                           *)

C1_RetryOnFailure ==
    [][ /\ (Returned /\ last_flush'.result = "fail") =>
              /\ pending_logs # <<>>
              /\ UNCHANGED <<pending_logs, last_send_time, total_logs_sent>>
              /\ last_flush'.batch = pending_logs
        /\ (Submits /\ last_flush.result = "fail") =>
              /\ IsPrefix(last_flush.batch, pending_logs')
              /\ message' = format_log_batch(pending_logs', now)
      ]_vars

\* a retry under way that carries the failed batch and an entry matched since
C1_Witness ==
    /\ pc = "size_deliver"
    /\ last_flush.result = "fail"
    /\ Len(pending_logs) > Len(last_flush.batch)
    /\ IsPrefix(last_flush.batch, pending_logs)

----------------------------------------------------------------------------
(* C2  No duplicate emission: while the log file is never truncated, no byte *)
(* of it is returned by two reads, and no line is appended to the pending    *)
(* batch twice: the entries ever appended come from increasing offsets.      *)

C2_NoDuplicateEmission ==
    ~shrunk =>
        /\ \A i \in 1..MaxFile : read_count[i] <= 1
        /\ \A i, j \in 1..Len(origins) : i < j => origins[i] < origins[j]

\* two reads, each of which found a matching line
C2_Witness ==
    /\ batch_size = 1
    /\ Len(sent) = 1
    /\ Len(pending_logs) = 1
    /\ origins = <<0, 2>>
    /\ \A i \in 1..4 : read_count[i] = 1

----------------------------------------------------------------------------
(* C3  Offset monotonicity: while the log file only grows, last_position     *)
(* never decreases and never exceeds the length of the file.                 *)

C3_OffsetMonotone ==
    [][ ~shrunk' => /\ last_position' >= last_position
                    /\ last_position' <= Len(file') ]_vars

\* a read has advanced the offset and the file has grown since
C3_Witness ==
    /\ ~shrunk
    /\ last_position = 2
    /\ Len(file) = 4
    /\ pc = "poll"

----------------------------------------------------------------------------
(* C4  Flush trigger by size: in every tick of the loop that runs to its     *)
(* time check, a size-triggered flush is attempted exactly when at least     *)
(* batch_size entries are pending once the tick's lines are processed; and   *)
(* no batch is handed to the Notifier in the loop while fewer than           *)
(* batch_size entries are pending and the batch timeout has not elapsed.     *)

C4_SizeTrigger ==
    [][ /\ (pc = "poll" /\ pc' \in Running \ {"poll"} /\ batch_size >= 1) =>
              (pc' = "size_deliver" <=> Len(pending_logs') >= batch_size)
        /\ (Submits /\ pc' \in Running) =>
              \/ Len(pending_logs') >= batch_size
              \/ now - last_send_time >= batch_timeout
      ]_vars

----------------------------------------------------------------------------
(* C5  Flush trigger by time: at the time check of every tick, a flush is    *)
(* attempted exactly when the pending batch is non-empty and at least        *)
(* batch_timeout has elapsed since last_send_time, also with fewer than      *)
(* batch_size entries pending; with an empty batch none is attempted.        *)

C5_TimeTrigger ==
    [][ (pc = "time_check" /\ pc' \in Running) =>
            /\ (pc' = "time_deliver") <=>
                  (pending_logs # <<>> /\ now - last_send_time >= batch_timeout)
            /\ pending_logs = <<>> =>
                  (pc' = "sleep" /\ UNCHANGED <<tick_flushes, batch_called>>)
      ]_vars

\* a time-triggered flush of a batch below the size threshold
C5_Witness ==
    /\ pc = "time_deliver"
    /\ Len(pending_logs) < batch_size
    /\ now - last_send_time = batch_timeout

----------------------------------------------------------------------------
(* C6  An empty flush is a no-op: send_pending_logs with an empty pending    *)
(* batch returns at once, hands nothing to the Notifier and leaves           *)
(* pending_logs, last_send_time and total_logs_sent as they are, however     *)
(* often it is called; and no empty batch ever reaches the Notifier.         *)

C6_EmptyFlushNoOp ==
    [][ /\ (tick_flushes' = Append(tick_flushes, "empty")) =>
              /\ pending_logs' = <<>>
              /\ pc' \notin Delivering
              /\ UNCHANGED <<pending_logs, last_send_time, total_logs_sent,
                             message, sent, batch_called, failed>>
        /\ pc' \in Delivering => (pending_logs' # <<>> /\ message' # <<>>)
      ]_vars

\* the empty flush was called in several ticks in a row
C6_Witness ==
    /\ tick_flushes = <<"empty">>
    /\ last_flush.result = "empty"
    /\ now >= 2
    /\ ~batch_called
    /\ total_logs_sent = 0
    /\ last_send_time = 0

----------------------------------------------------------------------------
(* C7  Truncation cap: a batch whose natural text (header, then the entries  *)
(* joined by blank lines) is longer than 4000 characters is rendered as the  *)
(* first 4000 characters of it followed by the truncation marker; one of at  *)
(* most 4000 characters, exactly 4000 included, is rendered unchanged.       *)

C7_TruncationCap ==
    pc = "formatted" =>
        LET natural == NaturalMessage(arg, now)
        IN  IF Len(natural) > 4000
            THEN /\ Len(ret) = 4000 + Len(TruncationMarker)
                 /\ \A i \in 1..4000 : ret[i] = natural[i]
                 /\ SubSeq(ret, 4001, Len(ret)) = TruncationMarker
            ELSE ret = natural

\* a batch one character over the cap, cut
C7_Witness ==
    /\ pc = "formatted"
    /\ Len(NaturalMessage(arg, now)) = 4001
    /\ Len(arg) = 3
    /\ Len(ret) = 4016

----------------------------------------------------------------------------
(* C8  Match correctness: check_log_match returns the name of the first      *)
(* rule, in configuration order, that is enabled, compiles and whose pattern *)
(* occurs in the line, and no match when there is none; disabled rules and   *)
(* rules that do not compile are not in the rule set.                        *)

C8_MatchCorrect ==
    /\ Len(filters) = Cardinality({i \in 1..Len(config) :
                          config[i].enabled /\ ~CompileFails(config[i].pattern)})
    /\ pc = "matched" =>
         IF LiveRules(arg) = {}
         THEN ret = [matched |-> FALSE, name |-> <<>>]
         ELSE ret = [matched |-> TRUE, name |-> config[FirstOf(LiveRules(arg))].name]

\* two rules occur in the line, the first of them disabled: the second is returned
C8_Witness ==
    /\ pc = "matched"
    /\ Len(config) = 2
    /\ ~config[1].enabled
    /\ Occurs(config[1].pattern, arg)
    /\ config[1].pattern # <<>>
    /\ config[1].name # config[2].name
    /\ ret = [matched |-> TRUE, name |-> config[2].name]

----------------------------------------------------------------------------
(* C9  End-to-end batching, as claimed: in the loop, while no delivery has   *)
(* failed, the entries accepted by the Notifier followed by the pending ones *)
(* are exactly the formatted matching lines of the consumed part of the log, *)
(* each once, in file order; and a tick ends with fewer than batch_size      *)
(* entries pending, after at most one flush.                                 *)

C9_Batching(whole) ==
    (pc \in Running /\ ~failed /\ ~shrunk /\ whole) =>
        /\ sent \o pending_logs = ExpectedEntries(LinesOf(Consumed))
        /\ total_logs_sent = Len(sent)
        /\ (pc = "sleep" /\ batch_size >= 1) =>
              /\ Len(pending_logs) < batch_size
              /\ Len(tick_flushes) <= 1
        /\ \A i \in 1..Len(tick_flushes) : tick_flushes[i] \in {"ok", "empty"}

C9_Original == C9_Batching(TRUE)

\* C9 as amended: the same, provided no read ended in the middle of a line
C9_EndToEnd == C9_Batching(~split)

\* two polls of one matching line each, one flush of the two entries
C9_Witness ==
    /\ pc = "sleep"
    /\ batch_size = 2
    /\ now = 1
    /\ ~split /\ ~failed
    /\ tick_flushes = <<"ok">>
    /\ Len(sent) = 2
    /\ pending_logs = <<>>
    /\ origins = <<0, 2>>

----------------------------------------------------------------------------
(* C10  Startup gate: the loop is entered only after the probe and then the  *)
(* startup message succeeded; a failed probe stops the run before the        *)
(* startup message, a failed startup message stops it too, and in either     *)
(* case nothing is retried, the log file is never read, and neither a batch  *)
(* nor a shutdown summary is sent.                                           *)

NothingDone ==
    /\ \A i \in 1..MaxFile : read_count[i] = 0
    /\ last_position = 0
    /\ pending_logs = <<>>
    /\ ~batch_called
    /\ sent = <<>>
    /\ tick_flushes = <<>>
    /\ summary = <<>>

C10_StartupGate ==
    /\ pc \in Running \cup Stopping => (probe = "ok" /\ startup = "ok")
    /\ startup # "none" => probe = "ok"
    /\ probe = "fail" => (pc = "stopped" /\ startup = "none" /\ NothingDone)
    /\ startup = "fail" => (pc = "stopped" /\ NothingDone)
    /\ pc \in {"probe", "startup"} => NothingDone

\* the probe succeeded, the startup message failed, the run is over
C10_Witness ==
    /\ pc = "stopped"
    /\ probe = "ok"
    /\ startup = "fail"

----------------------------------------------------------------------------
(* C11  Shutdown sequence: after the interrupt, the except branch makes at   *)
(* most one flush attempt of the pending batch (none when it is empty),      *)
(* then exactly one delivery attempt of the summary, in that order, and      *)
(* then reaches STOPPED whether the deliveries succeeded or not; the summary *)
(* reports total_logs_sent as it is after the final flush attempt.           *)

C11_ShutdownSequence ==
    /\ [][ /\ pc = "stop_flush" =>
                 /\ pc' \in {"stop_flush", "stop_deliver", "stop_summary"}
                 /\ (pc' = "stop_deliver") => pending_logs # <<>>
                 /\ (pc' = "stop_summary") =>
                        (pending_logs = <<>> /\ UNCHANGED <<batch_called, sent>>)
           /\ pc = "stop_deliver" =>
                 /\ pc' \in {"stop_deliver", "stop_summary"}
                 /\ (pc' = "stop_summary") =>
                        last_flush'.result \in {"ok", "fail"}
           /\ pc = "stop_summary" =>
                 /\ pc' \in {"stop_summary", "stopped"}
                 /\ (pc' = "stopped") =>
                        /\ Len(summary') = 1
                        /\ summary'[1].total = total_logs_sent
                        /\ UNCHANGED <<total_logs_sent, pending_logs, sent>>
           /\ pc = "stopped" => pc' = "stopped"
           /\ pc \notin {"stop_summary"} => summary' = summary
         ]_vars
    /\ [](pc \in Running \cup Stopping => summary = <<>>)
    /\ (pc \in Stopping) ~> (pc = "stopped" /\ Len(summary) = 1)

\* the final flush and the summary both failed, and the run has stopped
C11_Witness ==
    /\ pc = "stopped"
    /\ pending_logs # <<>>
    /\ last_flush = [batch |-> pending_logs, result |-> "fail"]
    /\ summary = <<[total |-> 0, ok |-> FALSE]>>

----------------------------------------------------------------------------
(* C12  Steady-state errors never stop the loop: once RUNNING, no outcome of *)
(* a tick (file missing, read error, failed delivery of a size- or           *)
(* time-triggered flush) takes the run out of RUNNING; the only step out of  *)
(* RUNNING is the interrupt, and after an error the loop goes on to its next *)
(* statement and its next tick.                                              *)

\* the statement of the loop that follows the one at p
NextStatement(p) ==
    CASE p = "poll" -> "time_check"
      [] p = "size_deliver" -> "time_check"
      [] p = "time_check" -> "sleep"
      [] p = "time_deliver" -> "sleep"
      [] p = "sleep" -> "poll"

C12_ErrorsKeepRunning ==
    [][ /\ (pc \in Running /\ pc' \notin Running) =>
              (Interrupt \/ InterruptPoll \/ InterruptDeliver)
        /\ (pc = "poll" /\ pc' \in Running /\ read_count' = read_count
                /\ (file_exists => NewText # <<>>)) =>
              pc' \in {pc, NextStatement(pc)}
        /\ (pc \in Delivering \cap Running /\ last_flush'.result = "fail") =>
              pc' = NextStatement(pc)
        /\ (pc \in {"time_check", "sleep"} /\ pc' \in Running /\ pc' # pc) =>
              pc' \in {NextStatement(pc), "time_deliver"}
      ]_vars

\* a later tick begins after a delivery of the loop failed
C12_Witness ==
    /\ pc = "poll"
    /\ now >= 2
    /\ failed
    /\ last_flush.result = "fail"
    /\ pending_logs # <<>>

----------------------------------------------------------------------------
(* C13  Failed deliveries are retried and drained: in RUNNING, if the loop   *)
(* keeps ticking (so time advances) and from some point on every delivery    *)
(* succeeds, a non-empty pending batch always leads to a successful flush    *)
(* that empties it; and no entry leaves the pending batch other than through *)
(* a flush whose delivery succeeded.                                         *)

C13_EventuallyDrained ==
    /\ ( /\ []<>(pc = "poll")
         /\ <>[][~(pc \in Delivering /\ last_flush'.result = "fail")]_vars )
       => ( (pc \in Running /\ pending_logs # <<>>)
               ~> (pending_logs = <<>> /\ last_flush.result = "ok") )
    /\ [][ ~IsPrefix(pending_logs, pending_logs') =>
              (pending_logs' = <<>> /\ sent' = sent \o pending_logs) ]_vars

\* a delivery failed, and a later flush was accepted and emptied the batch
C13_Witness ==
    /\ pc \in Running
    /\ failed
    /\ last_flush.result = "ok"
    /\ last_flush.batch # <<>>
    /\ pending_logs = <<>>
    /\ sent # <<>>

----------------------------------------------------------------------------
(* C14  Truncation recovery: when the file has shrunk below the stored       *)
(* offset, the next poll that reads it resets last_position to 0, so that    *)
(* the lines written afterwards are read.                                    *)

C14_TruncationRecovery ==
    [][ (last_position > Len(file) /\ Poll) => last_position' = 0 ]_vars

----------------------------------------------------------------------------
(* C15  A failed or skipped read changes nothing: when the file is missing   *)
(* or the read raises, process_new_lines returns to the loop without raising *)
(* and leaves last_position, pending_logs, last_send_time and                *)
(* total_logs_sent as they were, so the same range of the file is still to   *)
(* be read by the next tick.                                                 *)

\* a step of the program at the poll that reads nothing: the file is missing,
\* or it holds unread text and none of it was read
ReadFailed ==
    /\ pc = "poll"
    /\ pc' # "poll"
    /\ \/ ~file_exists
       \/ NewText # <<>> /\ read_count' = read_count

C15_FailedReadChangesNothing ==
    [][ ReadFailed =>
          /\ pc' = "time_check"
          /\ UNCHANGED <<last_position, pending_logs, last_send_time,
                         total_logs_sent>>
          /\ NewText' = NewText
      ]_vars

\* a read has failed in a tick that follows a successful one: the text it
\* should have read is still unread
C15_Witness ==
    /\ pc = "time_check"
    /\ NewText # <<>>
    /\ last_position > 0
    /\ pending_logs # <<>>

----------------------------------------------------------------------------
(* C16  One flush decision per tick: within one tick the Notifier receives   *)
(* at most one batch delivery attempt, also when the size and the time       *)
(* threshold are both met and the delivery fails.                            *)

\* the batch deliveries attempted so far in the current tick
Attempts == {i \in DOMAIN tick_flushes : tick_flushes[i] # "empty"}

C16_OneFlushPerTick ==
    pc \in Running => Cardinality(Attempts) <= 1

----------------------------------------------------------------------------
(* C17  Delivery accounting: total_logs_sent starts at 0 and never           *)
(* decreases; a successful flush increases it by exactly the number of       *)
(* entries of its batch, empties pending_logs and sets last_send_time to     *)
(* the current time; a failed flush, an empty flush, the startup message     *)
(* and the shutdown summary leave it unchanged.  Hence, as long as no flush  *)
(* was interrupted, total_logs_sent is the number of entries in the accepted *)
(* batches.                                                                  *)

C17_DeliveryAccounting ==
    /\ [](pc = "probe" => total_logs_sent = 0)
    /\ []("cut" \notin Range(tick_flushes) => total_logs_sent = Len(sent))
    /\ [][ /\ total_logs_sent' >= total_logs_sent
           /\ (pc \in Delivering /\ last_flush'.result = "ok") =>
                 /\ total_logs_sent' = total_logs_sent + Len(pending_logs)
                 /\ last_flush'.batch = pending_logs
                 /\ pending_logs' = <<>>
                 /\ last_send_time' = now
           /\ (pc \in Delivering /\ last_flush'.result = "fail") =>
                 total_logs_sent' = total_logs_sent
           /\ (tick_flushes' = Append(tick_flushes, "empty")) =>
                 total_logs_sent' = total_logs_sent
           /\ (pc \in {"probe", "startup", "stop_summary"}) =>
                 total_logs_sent' = total_logs_sent
         ]_vars

\* two accepted flushes, the second one of two entries, both counted
C17_Witness ==
    /\ total_logs_sent >= 3
    /\ Len(last_flush.batch) = 2
    /\ last_flush.result = "ok"
    /\ total_logs_sent = Len(sent)

----------------------------------------------------------------------------
(* C18  The interrupt does not break the atomicity of a flush: it is acted   *)
(* on at a tick boundary only, so the flush of the tick has either not       *)
(* happened or is complete; the final flush of STOPPING never sends again    *)
(* the entries of an accepted batch, and total_logs_sent never counts an     *)
(* entry twice nor misses an accepted one.                                   *)

C18_FlushAtomicity ==
    /\ total_logs_sent = Len(sent)
    /\ Len(sent) + Len(pending_logs) = Len(origins)

----------------------------------------------------------------------------
(* C19  Delivered means contained: every entry that a successful flush       *)
(* removes from the pending batch and counts is contained in full in the     *)
(* text of the accepted message, whatever the size of the batch.             *)

\* the entry stands, whole, somewhere in the text
Contains(text, entry) ==
    \E a \in 1..(Len(text) - Len(entry) + 1) :
        /\ text[a] = entry[1]
        /\ SubSeq(text, a, a + Len(entry) - 1) = entry

C19_DeliveredContained ==
    [][ (pc \in Delivering /\ last_flush'.result = "ok") =>
          \A i \in 1..(total_logs_sent' - total_logs_sent) :
              Contains(message, pending_logs[i]) ]_vars

----------------------------------------------------------------------------
(* C20  Hard message ceiling: every batch message passed to the Notifier has *)
(* a total length, truncation suffix included, of at most 4000 characters.   *)

C20_HardCeiling ==
    pc \in Delivering => Len(message) <= MessageCap

====
